---- MODULE Spec2Model ----
(***************************************************************************)
(* A browser page that loads the MovieLens 100K data (or a synthetic       *)
(* stand-in), trains a matrix-factorization model with the tensor engine   *)
(* and serves rating predictions.  The module models the page session of   *)
(* script.js together with the two data loaders of the repository: the     *)
(* loader with the fallback chain (src/unnamed/part_000) and the loader    *)
(* with a single location per resource (src/data.js).                      *)
(***************************************************************************)
EXTENDS Integers, Sequences, FiniteSets, TLC

(***************************************************************************)
(* Bounds of the model.                                                    *)
(***************************************************************************)
\* Seeds 0..MaxSeed of the random stream behind Math.random().
MaxSeed == 1
\* predictRating calls that get past both checks (each creates tensors).
MaxPredicts == 1
\* Options of each dropdown the user selects among.
MaxOptions == 1
\* The most arguments one call takes in the engine (a spread beyond it raises
\* RangeError); engines set it in the tens of thousands.
ArgLimit == 3

(***************************************************************************)
(* Program constants.                                                      *)
(***************************************************************************)
EPOCHS == 8
\* numUsers = 50 in loadSampleData
SampleUsers == 50

(***************************************************************************)
(* JavaScript values.  Numbers are integers; NaN, -Infinity and the empty  *)
(* string of an unselected dropdown are reserved integers that no text of  *)
(* the model parses to.                                                    *)
(***************************************************************************)
NaN == 0 - 99999
NegInfinity == 0 - 99998
EmptyValue == 0 - 99997

IsNumber(x) == x \notin {NaN, NegInfinity, EmptyValue}

\* Math.max(...xs): -Infinity for no argument, NaN as soon as one is NaN.
RECURSIVE MathMax(_)
MathMax(xs) ==
    IF xs = <<>> THEN NegInfinity
    ELSE LET h == Head(xs)
             t == MathMax(Tail(xs))
         IN  IF h = NaN \/ t = NaN THEN NaN
             ELSE IF t = NegInfinity THEN h
             ELSE IF h = NegInfinity THEN t
             ELSE IF h >= t THEN h ELSE t

(***************************************************************************)
(* Text.  A text is a sequence of one-character strings.                   *)
(***************************************************************************)
Digits == {"0", "1", "2", "3", "4", "5", "6", "7", "8", "9"}

DigitVal(c) ==
    CASE c = "0" -> 0 [] c = "1" -> 1 [] c = "2" -> 2 [] c = "3" -> 3
      [] c = "4" -> 4 [] c = "5" -> 5 [] c = "6" -> 6 [] c = "7" -> 7
      [] c = "8" -> 8 [] c = "9" -> 9

\* White space as String.prototype.trim and parseInt see it.
IsSpace(c) == c \in {" ", "\t", "\n", "\r"}

\* s.split(d) for a one-character delimiter d.
RECURSIVE split(_, _)
split(s, d) ==
    IF \A i \in 1..Len(s) : s[i] /= d THEN <<s>>
    ELSE LET i == CHOOSE k \in 1..Len(s) :
                      s[k] = d /\ \A j \in 1..(k - 1) : s[j] /= d
         IN  <<SubSeq(s, 1, i - 1)>> \o split(SubSeq(s, i + 1, Len(s)), d)

RECURSIVE trimStart(_)
trimStart(s) ==
    IF s /= <<>> /\ IsSpace(Head(s)) THEN trimStart(Tail(s)) ELSE s

RECURSIVE trimEnd(_)
trimEnd(s) ==
    IF s /= <<>> /\ IsSpace(s[Len(s)]) THEN trimEnd(SubSeq(s, 1, Len(s) - 1))
    ELSE s

trim(s) == trimEnd(trimStart(s))

\* The value of the longest prefix of decimal digits of s, read after acc.
RECURSIVE digitsValue(_, _)
digitsValue(s, acc) ==
    IF s /= <<>> /\ Head(s) \in Digits
    THEN digitsValue(Tail(s), 10 * acc + DigitVal(Head(s)))
    ELSE acc

\* parseInt(s): leading white space, an optional sign, then decimal digits;
\* NaN when no digit follows.  (The alphabet of the model has no "x", so the
\* hexadecimal prefix never occurs.)
parseInt(s) ==
    LET t    == trimStart(s)
        neg  == t /= <<>> /\ Head(t) = "-"
        sgn  == t /= <<>> /\ Head(t) \in {"-", "+"}
        body == IF sgn THEN Tail(t) ELSE t
    IN  IF body = <<>> \/ Head(body) \notin Digits THEN NaN
        ELSE IF neg THEN 0 - digitsValue(body, 0) ELSE digitsValue(body, 0)

\* parseFloat(s): the alphabet of the model has no ".", "e" or "Infinity",
\* so it reads the same decimal prefix as parseInt.
parseFloat(s) == parseInt(s)

\* text.split('\n').filter(line => line.trim())
RECURSIVE nonBlank(_)
nonBlank(ls) ==
    IF ls = <<>> THEN <<>>
    ELSE IF trim(Head(ls)) /= <<>> THEN <<Head(ls)>> \o nonBlank(Tail(ls))
    ELSE nonBlank(Tail(ls))

lines(text) == nonBlank(split(text, "\n"))

\* The replacement without the \s* of the pattern: the white space before
\* the year stays.
stripYearOnly(title) ==
    LET n == Len(title)
    IN  IF /\ n >= 6
           /\ title[n] = ")"
           /\ title[n - 5] = "("
           /\ \A k \in (n - 4)..(n - 1) : title[k] \in Digits
        THEN SubSeq(title, 1, n - 6)
        ELSE title

\* title.replace(/\s*\(\d{4}\)$/, '')
stripYear(title) ==
    LET n == Len(title)
    IN  IF /\ n >= 6
           /\ title[n] = ")"
           /\ title[n - 5] = "("
           /\ \A k \in (n - 4)..(n - 1) : title[k] \in Digits
        THEN trimEnd(SubSeq(title, 1, n - 6))
        ELSE title

RECURSIVE parseItemLines(_)
parseItemLines(ls) ==
    IF ls = <<>> THEN <<>>
    ELSE LET parts == split(Head(ls), "|")
         IN  (IF Len(parts) >= 2
              THEN <<[id |-> parseInt(parts[1]),
                      title |-> stripYear(trim(parts[2]))]>>
              ELSE <<>>) \o parseItemLines(Tail(ls))

parseItemData(text) == parseItemLines(lines(text))

\* The loop of parseRatingData asking for four fields (parts.length >= 4).
RECURSIVE parseRatingLinesFourFields(_)
parseRatingLinesFourFields(ls) ==
    IF ls = <<>> THEN <<>>
    ELSE LET parts == split(Head(ls), "\t")
         IN  (IF Len(parts) >= 4
              THEN <<[userId |-> parseInt(parts[1]),
                      movieId |-> parseInt(parts[2]),
                      rating |-> parseFloat(parts[3])]>>
              ELSE <<>>) \o parseRatingLinesFourFields(Tail(ls))

RECURSIVE parseRatingLines(_)
parseRatingLines(ls) ==
    IF ls = <<>> THEN <<>>
    ELSE LET parts == split(Head(ls), "\t")
         IN  (IF Len(parts) >= 3
              THEN <<[userId |-> parseInt(parts[1]),
                      movieId |-> parseInt(parts[2]),
                      rating |-> parseFloat(parts[3])]>>
              ELSE <<>>) \o parseRatingLines(Tail(ls))

parseRatingData(text) == parseRatingLines(lines(text))

\* The catalog literal of loadSampleData.
SampleMovies ==
    <<
       [id |-> 1, title |-> <<"T","o","y"," ","S","t","o","r","y">>],
       [id |-> 2, title |-> <<"G","o","l","d","e","n","E","y","e">>],
       [id |-> 3, title |-> <<"F","o","u","r"," ","R","o","o","m","s">>],
       [id |-> 4, title |-> <<"G","e","t"," ","S","h","o","r","t","y">>],
       [id |-> 5, title |-> <<"C","o","p","y","c","a","t">>],
       [id |-> 6, title |-> <<"S","h","a","n","g","h","a","i"," ","T","r","i","a","d">>],
       [id |-> 7, title |-> <<"T","w","e","l","v","e"," ","M","o","n","k","e","y","s">>],
       [id |-> 8, title |-> <<"B","a","b","e">>],
       [id |-> 9, title |-> <<"D","e","a","d"," ","M","a","n"," ","W","a","l","k","i","n","g">>],
       [id |-> 10, title |-> <<"R","i","c","h","a","r","d"," ","I","I","I">>],
       [id |-> 11, title |-> <<"S","e","v","e","n">>],
       [id |-> 12, title |-> <<"U","s","u","a","l"," ","S","u","s","p","e","c","t","s">>],
       [id |-> 13, title |-> <<"M","i","g","h","t","y"," ","A","p","h","r","o","d","i","t","e">>],
       [id |-> 14, title |-> <<"P","o","s","t","m","a","n",","," ","T","h","e">>],
       [id |-> 15, title |-> <<"M","r","."," ","H","o","l","l","a","n","d","'","s"," ","O","p","u","s">>],
       [id |-> 16, title |-> <<"F","r","e","n","c","h"," ","T","w","i","s","t">>],
       [id |-> 17, title |-> <<"F","r","o","m"," ","D","u","s","k"," ","T","i","l","l"," ","D","a","w","n">>],
       [id |-> 18, title |-> <<"W","h","i","t","e"," ","B","a","l","l","o","o","n",","," ","T","h","e">>],
       [id |-> 19, title |-> <<"A","n","t","o","n","i","a","'","s"," ","L","i","n","e">>],
       [id |-> 20, title |-> <<"A","n","g","e","l","s"," ","a","n","d"," ","I","n","s","e","c","t","s">>]
    >>

(***************************************************************************)
(* What the network may answer.  Bodies of the catalog: empty, two movies  *)
(* (one with a year suffix), a catalog whose only id is 2.  Bodies of the  *)
(* rating list: empty, the ratings of users 3, 1, 7, four ratings (more    *)
(* than ArgLimit), a rating with a non-numeric user id, a rating for a     *)
(* movie no catalog holds.                                                 *)
(***************************************************************************)
MovieBodies ==
    { <<>>,
      <<"1", "|", "A", " ", "(", "1", "9", "9", "5", ")", "\n", "2", "|", "B">>,
      <<"2", "|", "B", "\n">> }

RatingBodies ==
    { <<>>,
      <<"3", "\t", "1", "\t", "3", "\n", "1", "\t", "2", "\t", "4", "\n", "7", "\t", "1", "\t", "5">>,
      <<"1", "\t", "1", "\t", "4", "\n", "2", "\t", "2", "\t", "5", "\n", "1", "\t", "2", "\t", "3", "\n", "2", "\t", "1", "\t", "2", "\n">>,
      <<"a", "\t", "1", "\t", "3">>,
      <<"1", "\t", "9", "\t", "3">> }

\* The value of a variable declared and not yet assigned (let moviesText).
Undefined == <<"undefined">>

\* The locations of one resource: three in the loader with the fallback
\* chain (movieUrls, ratingUrls), one in the loader of data.js.
urls(ld) == IF ld = "fallback" THEN 1..3 ELSE 1..1

(***************************************************************************)
(* Math.random().  The engine's generator is a seeded stream; the model    *)
(* draws the seed in Init and steps a full-period congruential generator   *)
(* over hundredths, so every value k/100 of [0, 1) occurs in the stream.   *)
(***************************************************************************)
nextRandom(x) == (21 * x + 7) % 100

\* Math.floor(r * n) for the draw r = x / 100
floorTimes(x, n) == (x * n) \div 100

(***************************************************************************)
(* State.                                                                  *)
(***************************************************************************)
VARIABLES
    loader,         \* which loadData the page includes: "fallback" | "single"
    probe,          \* the input of a function studied alone; none in a session
    pc,             \* where window.onload and the calls it awaits stand
    urlIdx,         \* position of the for-of loop over the locations
    moviesText, ratingsText, moviesSuccess, ratingsSuccess,
    fetchLog,       \* the attempts finished so far, in order
    movies, ratings, numUsers, numMovies,
    rng,            \* state of the stream behind Math.random()
    genUserId, genI, numRatings, ratedMovies,  \* locals of loadSampleData
    loadOutcome,    \* "pending" | "returned" | "raised"
    datasetSource,  \* "none" | "fetched" | "synthetic"
    model,          \* "undefined" | "model"
    trainState,     \* "NotStarted" | "Running" | "Completed" | "Failed"
    epoch,          \* epochs of fit that have ended
    progress,       \* value of the progress bar, in tenths of a percent
    status,         \* text of the status line
    btnDisabled,    \* predict-btn.disabled
    trainTensors,   \* live tensors created by trainModel
    predTensors,    \* live tensors created by predictRating calls
    pending,        \* predictRating calls suspended at await prediction.data()
    nPredicts,      \* predictRating calls that reached model.predict
    modelWrites,    \* assignments to the global model so far
    result          \* what the result box shows

loadVars == <<urlIdx, moviesText, ratingsText, moviesSuccess, ratingsSuccess,
              fetchLog, loadOutcome>>
dataVars == <<movies, ratings, numUsers, numMovies, datasetSource>>
genVars == <<rng, genUserId, genI, numRatings, ratedMovies>>
trainVars == <<model, trainState, epoch, progress, trainTensors, modelWrites>>
predVars == <<predTensors, pending, nPredicts, result>>
pageVars == <<status, btnDisabled>>

vars == <<loader, probe, pc, loadVars, dataVars, genVars, trainVars, predVars,
          pageVars>>

NoResult == [kind |-> "none"]

NoProbe == <<>>

Init ==
    /\ loader \in {"fallback", "single"}
    /\ probe = NoProbe
    /\ pc = IF loader = "fallback" THEN "fetchMovies" ELSE "fetchAll"
    /\ urlIdx = 1
    /\ moviesText = Undefined
    /\ ratingsText = Undefined
    /\ moviesSuccess = FALSE
    /\ ratingsSuccess = FALSE
    /\ fetchLog = <<>>
    /\ movies = <<>>
    /\ ratings = <<>>
    /\ numUsers = 0
    /\ numMovies = 0
    /\ rng \in 0..MaxSeed
    /\ genUserId = 0
    /\ genI = 0
    /\ numRatings = 0
    /\ ratedMovies = {}
    /\ loadOutcome = "pending"
    /\ datasetSource = "none"
    /\ model = "undefined"
    /\ trainState = "NotStarted"
    /\ epoch = 0
    /\ progress = 0
    /\ status = "Loading"
    /\ btnDisabled = TRUE
    /\ trainTensors = 0
    /\ predTensors = 0
    /\ pending = <<>>
    /\ nPredicts = 0
    /\ modelWrites = 0
    /\ result = NoResult

(***************************************************************************)
(* loadData with the fallback chain (src/unnamed/part_000).                *)
(***************************************************************************)
attempt(res, ok) == [res |-> res, loc |-> urlIdx, ok |-> ok]

\* The for-of loop over movieUrls goes on after a failed attempt: the next
\* location, or the loop over ratingUrls when the list is exhausted.
nextMovieUrl ==
    IF urlIdx + 1 \in urls(loader)
    THEN /\ urlIdx' = urlIdx + 1
         /\ pc' = "fetchMovies"
    ELSE /\ urlIdx' = 1
         /\ pc' = "fetchRatings"

\* await fetch(url) of the movies loop settles.
fetchMovies ==
    /\ pc = "fetchMovies"
    /\ loader = "fallback"
    /\ \E outcome \in {"ok", "notOk", "throws"} :
          IF outcome = "ok"
          THEN /\ pc' = "textMovies"
               /\ UNCHANGED <<urlIdx, fetchLog>>
          ELSE /\ fetchLog' = Append(fetchLog, attempt("movies", FALSE))
               /\ nextMovieUrl
    /\ UNCHANGED <<loader, probe, moviesText, ratingsText, moviesSuccess,
                   ratingsSuccess, loadOutcome, dataVars, genVars, trainVars,
                   predVars, pageVars>>

\* textMovies without the break: the loop goes on to the next location after
\* a success.
textMoviesNoBreak ==
    /\ pc = "textMovies"
    /\ loader = "fallback"
    /\ \/ \E body \in MovieBodies :
             /\ moviesText' = body
             /\ moviesSuccess' = TRUE
             /\ fetchLog' = Append(fetchLog, attempt("movies", TRUE))
             /\ nextMovieUrl
       \/ /\ fetchLog' = Append(fetchLog, attempt("movies", FALSE))
          /\ nextMovieUrl
          /\ UNCHANGED <<moviesText, moviesSuccess>>
    /\ UNCHANGED <<loader, probe, ratingsText, ratingsSuccess, loadOutcome, dataVars,
                   genVars, trainVars, predVars, pageVars>>

\* await response.text() of the movies loop settles.
textMovies ==
    /\ pc = "textMovies"
    /\ loader = "fallback"
    /\ \/ \E body \in MovieBodies :
             /\ moviesText' = body
             /\ moviesSuccess' = TRUE
             /\ fetchLog' = Append(fetchLog, attempt("movies", TRUE))
             /\ urlIdx' = 1
             /\ pc' = "fetchRatings"
       \/ /\ fetchLog' = Append(fetchLog, attempt("movies", FALSE))
          /\ nextMovieUrl
          /\ UNCHANGED <<moviesText, moviesSuccess>>
    /\ UNCHANGED <<loader, probe, ratingsText, ratingsSuccess, loadOutcome, dataVars,
                   genVars, trainVars, predVars, pageVars>>

nextRatingUrl ==
    IF urlIdx + 1 \in urls(loader)
    THEN /\ urlIdx' = urlIdx + 1
         /\ pc' = "fetchRatings"
    ELSE /\ urlIdx' = 1
         /\ pc' = "decide"

\* await fetch(url) of the ratings loop settles.
fetchRatings ==
    /\ pc = "fetchRatings"
    /\ loader = "fallback"
    /\ \E outcome \in {"ok", "notOk", "throws"} :
          IF outcome = "ok"
          THEN /\ pc' = "textRatings"
               /\ UNCHANGED <<urlIdx, fetchLog>>
          ELSE /\ fetchLog' = Append(fetchLog, attempt("ratings", FALSE))
               /\ nextRatingUrl
    /\ UNCHANGED <<loader, probe, moviesText, ratingsText, moviesSuccess,
                   ratingsSuccess, loadOutcome, dataVars, genVars, trainVars,
                   predVars, pageVars>>

\* await response.text() of the ratings loop settles.
textRatings ==
    /\ pc = "textRatings"
    /\ loader = "fallback"
    /\ \/ \E body \in RatingBodies :
             /\ ratingsText' = body
             /\ ratingsSuccess' = TRUE
             /\ fetchLog' = Append(fetchLog, attempt("ratings", TRUE))
             /\ urlIdx' = 1
             /\ pc' = "decide"
       \/ /\ fetchLog' = Append(fetchLog, attempt("ratings", FALSE))
          /\ nextRatingUrl
          /\ UNCHANGED <<ratingsText, ratingsSuccess>>
    /\ UNCHANGED <<loader, probe, moviesText, moviesSuccess, loadOutcome, dataVars,
                   genVars, trainVars, predVars, pageVars>>

\* loadData is left (return, or the call of loadSampleData it returns): its
\* locals, and the record of its attempts, are out of scope from here on.
leaveLoadData ==
    /\ urlIdx' = 1
    /\ moviesText' = Undefined
    /\ ratingsText' = Undefined
    /\ moviesSuccess' = FALSE
    /\ ratingsSuccess' = FALSE
    /\ fetchLog' = <<>>

\* A loadSampleData that keeps the catalog when its text was retrieved.
loadSampleDataKeepCatalog ==
    /\ movies' = IF moviesSuccess THEN parseItemData(moviesText)
                 ELSE SampleMovies
    /\ ratings' = <<>>
    /\ numUsers' = SampleUsers
    /\ numMovies' = Len(SampleMovies)
    /\ datasetSource' = "synthetic"
    /\ genUserId' = 1
    /\ genI' = 0
    /\ numRatings' = 0
    /\ ratedMovies' = {}
    /\ pc' = "sampleUser"

\* The head of loadSampleData: the catalog literal, ratings = [], numUsers =
\* 50, numMovies = movies.length, and the for loop over users at userId = 1.
loadSampleDataStart ==
    /\ movies' = SampleMovies
    /\ ratings' = <<>>
    /\ numUsers' = SampleUsers
    /\ numMovies' = Len(SampleMovies)
    /\ datasetSource' = "synthetic"
    /\ genUserId' = 1
    /\ genI' = 0
    /\ numRatings' = 0
    /\ ratedMovies' = {}
    /\ pc' = "sampleUser"

\* Math.max(...ratings.map(r => r.userId)) raises RangeError when the spread
\* passes more arguments than the engine takes.
spreadRaises(rs) == Len(rs) > ArgLimit

userIds(rs) == [k \in 1..Len(rs) |-> rs[k].userId]

\* Lines 61-88: the fallback decision, else parsing and the dimensions; an
\* error raised on the way is caught and answered with loadSampleData.
decideFallback ==
    /\ pc = "decide"
    /\ loader = "fallback"
    /\ IF ~moviesSuccess \/ ~ratingsSuccess
       THEN /\ loadSampleDataStart
            /\ UNCHANGED <<rng, loadOutcome>>
       ELSE LET ms == parseItemData(moviesText)
                rs == parseRatingData(ratingsText)
            IN  IF spreadRaises(rs)
                THEN /\ loadSampleDataStart
                     /\ UNCHANGED <<rng, loadOutcome>>
                ELSE /\ movies' = ms
                     /\ ratings' = rs
                     /\ numUsers' = MathMax(userIds(rs))
                     /\ numMovies' = Len(ms)
                     /\ datasetSource' = "fetched"
                     /\ loadOutcome' = "returned"
                     /\ pc' = "loadReturned"
                     /\ UNCHANGED genVars
    /\ leaveLoadData
    /\ UNCHANGED <<loader, probe, trainVars, predVars, pageVars>>

(***************************************************************************)
(* loadSampleData (src/unnamed/part_000), one step per loop iteration.     *)
(* It runs to completion without suspending: no other handler runs while   *)
(* pc is "sampleUser" or "sampleRating".                                   *)
(***************************************************************************)
\* do { movieId = Math.floor(Math.random() * numMovies) + 1 }
\* while (ratedMovies.has(movieId)): the state of the stream at the draw
\* that leaves the loop.
RECURSIVE drawUnrated(_, _, _)
drawUnrated(x, n, rated) ==
    LET y == nextRandom(x)
    IN  IF (floorTimes(y, n) + 1) \in rated THEN drawUnrated(y, n, rated)
        ELSE y

\* drawNumRatings with the offset 15 in place of 5: up to 24 ratings.
drawNumRatingsFromFifteen(y) == floorTimes(y, 10) + 15

\* drawNumRatings with the offset 1 in place of 5.
drawNumRatingsFromOne(y) == floorTimes(y, 10) + 1

\* Math.floor(Math.random() * 10) + 5
drawNumRatings(y) == floorTimes(y, 10) + 5

\* The three-way choice of a rating from rand = y / 100; z is the draw that
\* follows (used by the first and the last branch only).
drawRating(y, z) ==
    IF y < 60 THEN floorTimes(z, 2) + 4
    ELSE IF y < 90 THEN 3
    ELSE floorTimes(z, 2) + 1

\* The head of the loop over users: the next user's numRatings and an empty
\* ratedMovies, or the return of the dataset after the last user.
sampleUser ==
    /\ pc = "sampleUser"
    /\ IF genUserId <= numUsers
       THEN LET y == nextRandom(rng)
            IN  /\ rng' = y
                /\ numRatings' = drawNumRatings(y)
                /\ ratedMovies' = {}
                /\ genI' = 0
                /\ pc' = "sampleRating"
                /\ UNCHANGED <<genUserId, loadOutcome>>
       ELSE /\ loadOutcome' = "returned"
            /\ pc' = "loadReturned"
            /\ UNCHANGED genVars
    /\ UNCHANGED <<loader, probe, urlIdx, moviesText, ratingsText, moviesSuccess,
                   ratingsSuccess, fetchLog, dataVars, trainVars, predVars,
                   pageVars>>

\* One iteration of the loop over i: a movie the user has not rated yet, a
\* rating for it, and the push; after the last one, userId++.
sampleRating ==
    /\ pc = "sampleRating"
    /\ IF genI < numRatings
       THEN /\ \E m \in 1..numMovies : m \notin ratedMovies
            /\ LET y       == drawUnrated(rng, numMovies, ratedMovies)
                   movieId == floorTimes(y, numMovies) + 1
                   rand    == nextRandom(y)
                   branch3 == rand >= 60 /\ rand < 90
                   z       == IF branch3 THEN rand ELSE nextRandom(rand)
               IN  /\ ratedMovies' = ratedMovies \cup {movieId}
                   /\ ratings' = Append(ratings,
                                        [userId |-> genUserId,
                                         movieId |-> movieId,
                                         rating |-> drawRating(rand, z)])
                   /\ rng' = z
            /\ genI' = genI + 1
            /\ UNCHANGED <<genUserId, numRatings, pc>>
       ELSE /\ genUserId' = genUserId + 1
            /\ pc' = "sampleUser"
            /\ UNCHANGED <<rng, genI, numRatings, ratedMovies, ratings>>
    /\ UNCHANGED <<loader, probe, loadVars, movies, numUsers, numMovies,
                   datasetSource, trainVars, predVars, pageVars>>

(***************************************************************************)
(* loadData with one location per resource (src/data.js).                  *)
(***************************************************************************)
\* catch (error) { throw error }: loadData rejects.
loadDataRaises ==
    /\ loadOutcome' = "raised"
    /\ pc' = "loadRaised"
    /\ leaveLoadData

\* await Promise.all([fetch(moviesUrl), fetch(ratingsUrl)]) settles, and the
\* check of both responses.
fetchAll ==
    /\ pc = "fetchAll"
    /\ loader = "single"
    /\ \E mo \in {"ok", "notOk", "throws"}, ro \in {"ok", "notOk", "throws"} :
          IF mo = "ok" /\ ro = "ok"
          THEN /\ fetchLog' = fetchLog \o <<attempt("movies", TRUE),
                                            attempt("ratings", TRUE)>>
               /\ pc' = "textMovies"
               /\ UNCHANGED <<urlIdx, moviesText, ratingsText, moviesSuccess,
                              ratingsSuccess, loadOutcome>>
          ELSE loadDataRaises
    /\ UNCHANGED <<loader, probe, dataVars, genVars, trainVars, predVars, pageVars>>

\* await moviesResponse.text() settles.
textMoviesSingle ==
    /\ pc = "textMovies"
    /\ loader = "single"
    /\ \/ \E body \in MovieBodies :
             /\ moviesText' = body
             /\ pc' = "textRatings"
             /\ UNCHANGED <<urlIdx, ratingsText, moviesSuccess, ratingsSuccess,
                            fetchLog, loadOutcome>>
       \/ loadDataRaises
    /\ UNCHANGED <<loader, probe, dataVars, genVars, trainVars, predVars, pageVars>>

\* await ratingsResponse.text() settles; then parsing and the dimensions.
textRatingsSingle ==
    /\ pc = "textRatings"
    /\ loader = "single"
    /\ \/ \E body \in RatingBodies :
             LET ms == parseItemData(moviesText)
                 rs == parseRatingData(body)
             IN  IF spreadRaises(rs)
                 THEN /\ loadDataRaises
                      /\ movies' = ms
                      /\ ratings' = rs
                      /\ UNCHANGED <<numUsers, numMovies, datasetSource>>
                 ELSE /\ movies' = ms
                      /\ ratings' = rs
                      /\ numUsers' = MathMax(userIds(rs))
                      /\ numMovies' = Len(ms)
                      /\ datasetSource' = "fetched"
                      /\ loadOutcome' = "returned"
                      /\ pc' = "loadReturned"
                      /\ leaveLoadData
       \/ /\ loadDataRaises
          /\ UNCHANGED dataVars
    /\ UNCHANGED <<loader, probe, genVars, trainVars, predVars, pageVars>>

(***************************************************************************)
(* window.onload and trainModel (src/script.js).                           *)
(***************************************************************************)
\* Lines 17-25: the dropdowns are populated, the predict button is enabled.
onloadDataLoaded ==
    /\ pc = "loadReturned"
    /\ btnDisabled' = FALSE
    /\ status' = "Starting model training... This may take a few moments."
    /\ pc' = "trainModel"
    /\ UNCHANGED <<loader, probe, loadVars, dataVars, genVars, trainVars, predVars>>

\* Lines 30-33: loadData rejected; trainModel is never called.
onloadCatch ==
    /\ pc = "loadRaised"
    /\ status' = "Error: "
    /\ pc' = "done"
    /\ UNCHANGED <<loader, probe, loadVars, dataVars, genVars, trainVars, predVars,
                   btnDisabled>>

\* A catch of trainModel that calls trainModel again.
trainModelCatchRetry ==
    /\ trainState' = "Failed"
    /\ status' = "Training failed: "
    /\ pc' = "trainModel"

\* catch (error) of trainModel, lines 159-162.
trainModelCatch ==
    /\ trainState' = "Failed"
    /\ status' = "Training failed: "
    /\ pc' = "done"

\* model = createModel(), line 117.
assignModel ==
    /\ model' = "model"
    /\ modelWrites' = modelWrites + 1

\* trainModel from its call to await model.fit(...), lines 113-135.  The
\* tensor engine may raise in createModel, in compile and in each tensor1d.
trainModel ==
    /\ pc = "trainModel"
    /\ \E raisesAt \in {"createModel", "compile", "userTensor", "movieTensor",
                        "ratingTensor", "nowhere"} :
          CASE raisesAt = "createModel" ->
                  /\ trainModelCatch
                  /\ UNCHANGED <<model, modelWrites, trainTensors>>
            [] raisesAt = "compile" ->
                  /\ assignModel
                  /\ trainModelCatch
                  /\ UNCHANGED trainTensors
            [] raisesAt = "userTensor" ->
                  /\ assignModel
                  /\ trainModelCatch
                  /\ UNCHANGED trainTensors
            [] raisesAt = "movieTensor" ->
                  /\ assignModel
                  /\ trainTensors' = trainTensors + 1
                  /\ trainModelCatch
            [] raisesAt = "ratingTensor" ->
                  /\ assignModel
                  /\ trainTensors' = trainTensors + 2
                  /\ trainModelCatch
            [] raisesAt = "nowhere" ->
                  /\ assignModel
                  /\ trainTensors' = trainTensors + 3
                  /\ trainState' = "Running"
                  /\ status' = "Starting training..."
                  /\ pc' = "fit"
    /\ UNCHANGED <<loader, probe, loadVars, dataVars, genVars, epoch, progress,
                   predVars, btnDisabled>>

\* The callback computing the fraction from epoch instead of epoch + 1.
onEpochEndFromZero ==
    /\ pc = "fit"
    /\ epoch < EPOCHS
    /\ progress' = (epoch * 1000) \div EPOCHS
    /\ status' = "Training epoch"
    /\ epoch' = epoch + 1
    /\ UNCHANGED <<loader, probe, pc, loadVars, dataVars, genVars, model,
                   trainState, trainTensors, modelWrites, predVars,
                   btnDisabled>>

\* callbacks.onEpochEnd(epoch, logs), lines 140-145.
onEpochEnd ==
    /\ pc = "fit"
    /\ epoch < EPOCHS
    /\ progress' = ((epoch + 1) * 1000) \div EPOCHS
    /\ status' = "Training epoch"
    /\ epoch' = epoch + 1
    /\ UNCHANGED <<loader, probe, pc, loadVars, dataVars, genVars, model, trainState,
                   trainTensors, modelWrites, predVars, btnDisabled>>

\* await model.fit(...) resolves after the last epoch, lines 149-157.
fitResolves ==
    /\ pc = "fit"
    /\ epoch = EPOCHS
    /\ trainTensors' = trainTensors - 3
    /\ status' = "Model training completed! Ready for predictions."
    /\ progress' = 1000
    /\ trainState' = "Completed"
    /\ pc' = "done"
    /\ UNCHANGED <<loader, probe, loadVars, dataVars, genVars, model, epoch,
                   modelWrites, predVars, btnDisabled>>

\* await model.fit(...) rejects, at any epoch: lines 159-162.
fitRejects ==
    /\ pc = "fit"
    /\ trainModelCatch
    /\ UNCHANGED <<loader, probe, loadVars, dataVars, genVars, model, epoch, progress,
                   trainTensors, modelWrites, predVars, btnDisabled>>

(***************************************************************************)
(* predictRating and displayPrediction (src/script.js).                    *)
(***************************************************************************)
\* A handler starts only when no other one is running: while window.onload
\* and every predictRating call are suspended at an await, or have ended.
idle ==
    pc \in {"fetchMovies", "textMovies", "fetchRatings", "textRatings",
            "fetchAll", "fit", "done"}

\* The values the two dropdowns can hold: the placeholder option, and once
\* populated an option per user 1..numUsers and per movie (the model selects
\* among the last MaxOptions of each).
populated == pc \in {"trainModel", "fit", "done"} /\ loadOutcome = "returned"

userOptions ==
    {EmptyValue} \cup
    (IF populated /\ IsNumber(numUsers)
     THEN {u \in (numUsers - MaxOptions + 1)..numUsers : u >= 1}
     ELSE {})

movieOptions ==
    {EmptyValue} \cup
    (IF populated
     THEN {movies[k].id :
               k \in {j \in (Len(movies) - MaxOptions + 1)..Len(movies) : j >= 1}}
     ELSE {})

\* Raw scores prediction.data() may resolve with, in tenths.
RawScores == {3, 36, 79}

showResult(message, type) == [kind |-> type, message |-> message]

\* movies.find(m => m.id === parseInt(movieId)): the position of the first
\* match, 0 when there is none (NaN equals nothing).
findMovie(movieId) ==
    LET hits == {k \in 1..Len(movies) :
                    movies[k].id = movieId /\ movieId /= NaN}
    IN  IF hits = {} THEN 0
        ELSE CHOOSE k \in hits : \A j \in hits : k <= j

\* Math.min and Math.max of two numbers, Math.floor of a number in tenths.
MathMin2(a, b) == IF a <= b THEN a ELSE b
MathMax2(a, b) == IF a >= b THEN a ELSE b
MathFloor(tenths) == tenths \div 10

\* displayPrediction with Math.max(1, predictedRating) for the clamp.
displayPredictionNoCeiling(userId, movieTitle, predictedRating) ==
    LET clampedRating == MathMax2(10, predictedRating)
        fullStars == MathFloor(clampedRating)
    IN  [kind |-> "prediction", userId |-> userId, title |-> movieTitle,
         rating |-> clampedRating,
         stars |-> [i \in 1..5 |-> IF i <= fullStars THEN "full"
                                   ELSE "empty"]]

\* displayPrediction, lines 212-249, for a raw score in tenths: the clamp,
\* the loop over the five stars (its second and third branch both add an
\* empty star) and the value toFixed(1) shows.
displayPrediction(userId, movieTitle, predictedRating) ==
    LET clampedRating == MathMax2(10, MathMin2(50, predictedRating))
        fullStars == MathFloor(clampedRating)
        partialStar == clampedRating - 10 * fullStars
    IN  [kind |-> "prediction", userId |-> userId, title |-> movieTitle,
         rating |-> clampedRating,
         stars |-> [i \in 1..5 |->
                       IF i <= fullStars THEN "full"
                       ELSE IF i = fullStars + 1 /\ partialStar > 0
                            THEN "empty"
                       ELSE "empty"]]

\* predictRating with the two checks in the other order.
predictRatingReadyFirst(userId, movieId) ==
    /\ idle
    /\ IF model = "undefined"
       THEN /\ result' = showResult("Model is not ready yet. Please wait for training to complete.",
                                    "error")
            /\ UNCHANGED <<predTensors, pending, nPredicts>>
       ELSE IF userId = EmptyValue \/ movieId = EmptyValue
       THEN /\ result' = showResult("Please select both a user and a movie.",
                                    "error")
            /\ UNCHANGED <<predTensors, pending, nPredicts>>
       ELSE /\ nPredicts < MaxPredicts
            /\ nPredicts' = nPredicts + 1
            /\ predTensors' = predTensors + 3
            /\ pending' = Append(pending, [userId |-> userId,
                                           movieId |-> movieId])
            /\ result' = showResult("Making prediction...", "info")
    /\ UNCHANGED <<loader, probe, pc, loadVars, dataVars, genVars, trainVars, pageVars>>

\* predictRating from its call to await prediction.data(), lines 168-191.
predictRating(userId, movieId) ==
    /\ idle
    /\ IF userId = EmptyValue \/ movieId = EmptyValue
       THEN /\ result' = showResult("Please select both a user and a movie.",
                                    "error")
            /\ UNCHANGED <<predTensors, pending, nPredicts>>
       ELSE IF model = "undefined"
       THEN /\ result' = showResult("Model is not ready yet. Please wait for training to complete.",
                                    "error")
            /\ UNCHANGED <<predTensors, pending, nPredicts>>
       ELSE /\ nPredicts < MaxPredicts
            /\ nPredicts' = nPredicts + 1
            /\ \/ /\ predTensors' = predTensors + 3
                  /\ pending' = Append(pending, [userId |-> userId,
                                                 movieId |-> movieId])
                  /\ result' = showResult("Making prediction...", "info")
               \/ \* model.predict raises
                  /\ predTensors' = predTensors + 2
                  /\ result' = showResult("Prediction failed: ", "error")
                  /\ UNCHANGED pending
    /\ UNCHANGED <<loader, probe, pc, loadVars, dataVars, genVars, trainVars, pageVars>>

\* await prediction.data() of a suspended call settles, lines 191-206.
predictionData(k) ==
    /\ idle
    /\ k \in 1..Len(pending)
    /\ pending' = [j \in 1..(Len(pending) - 1) |->
                      IF j < k THEN pending[j] ELSE pending[j + 1]]
    /\ \/ \E raw \in RawScores :
             /\ predTensors' = predTensors - 3
             /\ LET at == findMovie(pending[k].movieId)
                IN  result' = IF at = 0
                              THEN showResult("Prediction failed: ", "error")
                              ELSE displayPrediction(pending[k].userId,
                                                     movies[at].title, raw)
       \/ \* prediction.data() rejects
          /\ result' = showResult("Prediction failed: ", "error")
          /\ UNCHANGED predTensors
    /\ UNCHANGED <<loader, probe, pc, loadVars, dataVars, genVars, trainVars,
                   nPredicts, pageVars>>

Next ==
    \/ fetchMovies
    \/ textMovies
    \/ fetchRatings
    \/ textRatings
    \/ decideFallback
    \/ sampleUser
    \/ sampleRating
    \/ fetchAll
    \/ textMoviesSingle
    \/ textRatingsSingle
    \/ onloadDataLoaded
    \/ onloadCatch
    \/ trainModel
    \/ onEpochEnd
    \/ fitResolves
    \/ fitRejects
    \/ \E userId \in userOptions, movieId \in movieOptions :
          predictRating(userId, movieId)
    \/ \E k \in 1..Len(pending) : predictionData(k)

Spec == Init /\ [][Next]_vars

(***************************************************************************)
(* The claims.                                                             *)
(***************************************************************************)
MissingSelection ==
    showResult("Please select both a user and a movie.", "error")

ModelNotReady ==
    showResult("Model is not ready yet. Please wait for training to complete.",
               "error")

\* C1: a predictRating call with both ids selected that is issued before
\* training has completed (not started yet, or running) is rejected with
\* ModelNotReady and does not reach model.predict: it creates no tensor and
\* is not left suspended.
ClaimC1 ==
    [][\A userId \in userOptions, movieId \in movieOptions :
          ( /\ predictRating(userId, movieId)
            /\ userId /= EmptyValue
            /\ movieId /= EmptyValue
            /\ trainState \in {"NotStarted", "Running"} )
          => ( /\ result' = ModelNotReady
               /\ UNCHANGED <<nPredicts, predTensors, pending>> )]_vars

\* C2: once training has failed, at whatever step, the global model is
\* unset.
ClaimC2 == trainState = "Failed" => model = "undefined"

\* C3: the global model is written at most once, and a step that writes it
\* is the step that completes training.
ClaimC3 ==
    [][model' /= model
          => (modelWrites = 0 /\ trainState' = "Completed")]_vars

\* C4: a predictRating call with an empty userId or movieId shows the
\* MissingSelection message, whatever the state of the model, and changes
\* none of model, movies, ratings, numUsers, numMovies, nor creates a tensor.
ClaimC4 ==
    [][\A userId \in userOptions, movieId \in movieOptions :
          ( /\ predictRating(userId, movieId)
            /\ (userId = EmptyValue \/ movieId = EmptyValue) )
          => ( /\ result' = MissingSelection
               /\ UNCHANGED <<model, movies, ratings, numUsers, numMovies,
                              predTensors, trainTensors, pending,
                              nPredicts>> )]_vars

\* A MissingSelection answer given while training runs, with the model
\* already assigned.
WitnessC4 ==
    /\ result = MissingSelection
    /\ trainState = "Running"
    /\ model = "model"

\* C5: loadData never rejects to its caller.
ClaimC5 == loadOutcome /= "raised"

\* The attempts of one resource, in the order they finished.
logOf(res) == SelectSeq(fetchLog, LAMBDA a : a.res = res)

\* The locations of res were tried in the order 1, 2, 3, and none after one
\* that returned successfully.
TriedInOrder(res) ==
    LET l == logOf(res)
    IN  /\ \A k \in 1..Len(l) : l[k].loc = k
        /\ \A k \in 1..Len(l) : l[k].ok => k = Len(l)

\* The location being fetched is the one after the last attempt, and every
\* attempt before it has failed.
FetchedAfterFailures ==
    /\ (loader = "fallback" /\ pc \in {"fetchMovies", "textMovies"})
          => ( /\ urlIdx = Len(logOf("movies")) + 1
               /\ \A k \in 1..Len(logOf("movies")) : ~logOf("movies")[k].ok )
    /\ (loader = "fallback" /\ pc \in {"fetchRatings", "textRatings"})
          => ( /\ urlIdx = Len(logOf("ratings")) + 1
               /\ \A k \in 1..Len(logOf("ratings")) : ~logOf("ratings")[k].ok )

\* Every location of res has been tried and has failed.
Exhausted(res) ==
    /\ Len(logOf(res)) = Cardinality(urls(loader))
    /\ \A k \in 1..Len(logOf(res)) : ~logOf(res)[k].ok

FetchOrder ==
    TriedInOrder("movies") /\ TriedInOrder("ratings") /\ FetchedAfterFailures

\* C6 as stated: the locations of each resource are tried in order, none
\* after a success, and loadSampleData starts only when every location of
\* at least one resource has failed.
ClaimC6 ==
    /\ []FetchOrder
    /\ [][pc' = "sampleUser" /\ pc = "decide"
             => (Exhausted("movies") \/ Exhausted("ratings"))]_vars

\* C6 as amended: loadSampleData starts only when every location of at least
\* one resource has failed, or when processing the two retrieved texts
\* raised (the catch of loadData).
AmendedC6 ==
    /\ []FetchOrder
    /\ [][pc' = "sampleUser" /\ pc = "decide"
             => \/ Exhausted("movies")
                \/ Exhausted("ratings")
                \/ ( /\ moviesSuccess
                     /\ ratingsSuccess
                     /\ spreadRaises(parseRatingData(ratingsText)) )]_vars

\* The movies loop failed at locations 1 and 2 and succeeded at 3, the
\* ratings loop failed at 1 and succeeded at 2, and the decision is next.
WitnessC6 ==
    /\ pc = "decide"
    /\ loader = "fallback"
    /\ fetchLog = <<[res |-> "movies", loc |-> 1, ok |-> FALSE],
                    [res |-> "movies", loc |-> 2, ok |-> FALSE],
                    [res |-> "movies", loc |-> 3, ok |-> TRUE],
                    [res |-> "ratings", loc |-> 1, ok |-> FALSE],
                    [res |-> "ratings", loc |-> 2, ok |-> TRUE]>>

IsPositiveInteger(x) == IsNumber(x) /\ x >= 1

\* C7: every dataset loadData returns has at least one movie and one rating
\* and positive integer dimensions.
ClaimC7 ==
    loadOutcome = "returned"
        => /\ Len(movies) >= 1
           /\ Len(ratings) >= 1
           /\ IsPositiveInteger(numUsers)
           /\ IsPositiveInteger(numMovies)

\* The positions in ratings of the ratings of user u.
ratingsOf(u) == {k \in 1..Len(ratings) : ratings[k].userId = u}

\* C8: the synthetic dataset has numMovies = 20 and numUsers = 50; whenever
\* the generator stands between two users, and when it returns, no user has
\* two ratings for the same movie and every user it has finished (all of
\* 1..50 at the return) has between 5 and 15 ratings.
ClaimC8 ==
    datasetSource = "synthetic"
        => /\ numMovies = 20
           /\ numUsers = 50
           /\ pc = "loadReturned" => genUserId = 51
           /\ pc \in {"sampleUser", "loadReturned"}
                 => \A u \in 1..50 :
                       LET mine == ratingsOf(u)
                           n    == Cardinality(mine)
                       IN  /\ Cardinality({ratings[k].movieId : k \in mine}) = n
                           /\ u < genUserId => (n >= 5 /\ n <= 15)

\* loadSampleData has returned a dataset with ratings.
WitnessC8 ==
    /\ datasetSource = "synthetic"
    /\ pc = "loadReturned"
    /\ Len(ratings) >= 250

\* C9: on the fetched-data path numUsers is the maximum userId of the
\* parsed ratings (the userId of one of them, and no userId exceeds it), and
\* numMovies is the number of parsed movies.
ClaimC9 ==
    (datasetSource = "fetched" /\ loadOutcome = "returned")
        => /\ numMovies = Len(movies)
           /\ \E k \in 1..Len(ratings) : ratings[k].userId = numUsers
           /\ \A k \in 1..Len(ratings) :
                 /\ IsNumber(ratings[k].userId)
                 /\ ratings[k].userId <= numUsers

\* C10: when training can start, every rating's movieId is the id of a movie
\* and lies in 1..numMovies, and every rating's userId lies in 1..numUsers.
ClaimC10 ==
    pc = "trainModel"
        => \A k \in 1..Len(ratings) :
              /\ \E j \in 1..Len(movies) : movies[j].id = ratings[k].movieId
              /\ IsNumber(ratings[k].movieId)
              /\ 1 <= ratings[k].movieId
              /\ IsPositiveInteger(numMovies)
              /\ ratings[k].movieId <= numMovies
              /\ IsNumber(ratings[k].userId)
              /\ 1 <= ratings[k].userId
              /\ IsPositiveInteger(numUsers)
              /\ ratings[k].userId <= numUsers

\* C11: once trainModel has ended, Completed or Failed, none of the tensors it
\* created with tf.tensor1d (user ids, movie ids, ratings) is still live.
ClaimC11 ==
    trainState \in {"Completed", "Failed"} => trainTensors = 0

(***************************************************************************)
(* The parsers and displayPrediction studied alone.  A catalog or rating   *)
(* text is built from lines, a line from fields; every field comes with    *)
(* the value the documentation of parseInt, trim and the year pattern      *)
(* gives it, so that what a parser returns is compared with values that    *)
(* were not computed by the parser.                                        *)
(***************************************************************************)
\* Fields a line of the catalog may have, and lines a text may have.
MaxItemFields == 3
MaxLines == 2

\* Field 0 of a catalog line: an id, an id after white space, white space.
IdFields ==
    { [text |-> <<"7">>, int |-> 7],
      [text |-> <<" ", "1", "2">>, int |-> 12],
      [text |-> <<" ">>, int |-> NaN] }

\* Field 1 of a catalog line: "A (1995)", " B ", "C(1995)", "D (95)".
TitleFields ==
    { [text |-> <<"A", " ", "(", "1", "9", "9", "5", ")">>, title |-> <<"A">>],
      [text |-> <<" ", "B", " ">>, title |-> <<"B">>],
      [text |-> <<"C", "(", "1", "9", "9", "5", ")">>, title |-> <<"C">>],
      [text |-> <<"D", " ", "(", "9", "5", ")">>,
       title |-> <<"D", " ", "(", "9", "5", ")">>] }

\* The fields after those a parser reads (a date, a timestamp).
ExtraFields == { [text |-> <<"8", "8", "1">>] }

\* The lines of 1..n fields whose field k is drawn from fieldSets[k], the
\* fields past Len(fieldSets) from ExtraFields.
linesOver(fieldSets, n) ==
    UNION { { l \in [1..m -> UNION {fieldSets[k] : k \in 1..Len(fieldSets)}
                                 \cup ExtraFields] :
                \A k \in 1..m :
                    l[k] \in (IF k <= Len(fieldSets) THEN fieldSets[k]
                              ELSE ExtraFields) } :
            m \in 1..n }

textsOver(lineSet) == UNION { [1..n -> lineSet] : n \in 0..MaxLines }

ItemInputs == textsOver(linesOver(<<IdFields, TitleFields>>, MaxItemFields))

\* Fields a line of the rating list may have.
MaxRatingFields == 4

\* Fields 0, 1 and 2 of a rating line.
UserIdFields ==
    { [text |-> <<"3">>, int |-> 3],
      [text |-> <<"x">>, int |-> NaN] }

MovieIdFields ==
    { [text |-> <<"4">>, int |-> 4],
      [text |-> <<" ", "1", "2">>, int |-> 12] }

RatingFields ==
    { [text |-> <<"5">>, int |-> 5],
      [text |-> <<"2", " ">>, int |-> 2] }

RatingInputs ==
    textsOver(linesOver(<<UserIdFields, MovieIdFields, RatingFields>>,
                        MaxRatingFields))

\* Raw scores, in tenths: from -MaxRaw/10 to MaxRaw/10.
MaxRaw == 70

RawInputs == (0 - MaxRaw)..MaxRaw

RECURSIVE joinTexts(_, _)
joinTexts(ts, d) ==
    IF ts = <<>> THEN <<>>
    ELSE IF Len(ts) = 1 THEN ts[1]
    ELSE ts[1] \o <<d>> \o joinTexts(Tail(ts), d)

\* The text of an input: its fields joined by d, its lines by "\n".
textOf(ls, d) ==
    joinTexts([i \in 1..Len(ls) |->
                  joinTexts([k \in 1..Len(ls[i]) |-> ls[i][k].text], d)], "\n")

FunctionInit ==
    /\ loader = "fallback"
    /\ \/ probe \in ItemInputs /\ pc = "callParseItemData"
       \/ probe \in RatingInputs /\ pc = "callParseRatingData"
       \/ probe \in RawInputs /\ pc = "callDisplayPrediction"
    /\ urlIdx = 1
    /\ moviesText = Undefined
    /\ ratingsText = Undefined
    /\ moviesSuccess = FALSE
    /\ ratingsSuccess = FALSE
    /\ fetchLog = <<>>
    /\ movies = <<>>
    /\ ratings = <<>>
    /\ numUsers = 0
    /\ numMovies = 0
    /\ rng = 0
    /\ genUserId = 0
    /\ genI = 0
    /\ numRatings = 0
    /\ ratedMovies = {}
    /\ loadOutcome = "pending"
    /\ datasetSource = "none"
    /\ model = "undefined"
    /\ trainState = "NotStarted"
    /\ epoch = 0
    /\ progress = 0
    /\ status = "Loading"
    /\ btnDisabled = TRUE
    /\ trainTensors = 0
    /\ predTensors = 0
    /\ pending = <<>>
    /\ nPredicts = 0
    /\ modelWrites = 0
    /\ result = NoResult

\* movies = parseItemData(text) for the text of the probe.
callParseItemData ==
    /\ pc = "callParseItemData"
    /\ movies' = parseItemData(textOf(probe, "|"))
    /\ pc' = "doneParseItemData"
    /\ UNCHANGED <<loader, probe, loadVars, ratings, numUsers, numMovies,
                   datasetSource, genVars, trainVars, predVars, pageVars>>

\* ratings = parseRatingData(text) for the text of the probe.
callParseRatingData ==
    /\ pc = "callParseRatingData"
    /\ ratings' = parseRatingData(textOf(probe, "\t"))
    /\ pc' = "doneParseRatingData"
    /\ UNCHANGED <<loader, probe, loadVars, movies, numUsers, numMovies,
                   datasetSource, genVars, trainVars, predVars, pageVars>>

\* displayPrediction(1, "Toy Story", raw) for the raw score of the probe.
callDisplayPrediction ==
    /\ pc = "callDisplayPrediction"
    /\ result' = displayPrediction(1, SampleMovies[1].title, probe)
    /\ pc' = "doneDisplayPrediction"
    /\ UNCHANGED <<loader, probe, loadVars, dataVars, genVars, trainVars,
                   predTensors, pending, nPredicts, pageVars>>

FunctionNext ==
    \/ callParseItemData
    \/ callParseRatingData
    \/ callDisplayPrediction

FunctionSpec == FunctionInit /\ [][FunctionNext]_vars

\* The movies the lines ls stand for: one for every line of two fields or
\* more, in order, with the id and the title its fields 0 and 1 stand for.
RECURSIVE expectedMovies(_)
expectedMovies(ls) ==
    IF ls = <<>> THEN <<>>
    ELSE (IF Len(Head(ls)) >= 2
          THEN <<[id |-> Head(ls)[1].int, title |-> Head(ls)[2].title]>>
          ELSE <<>>) \o expectedMovies(Tail(ls))

\* C12: parseItemData returns one Movie for every non-blank line with at
\* least 2 pipe-delimited fields, in input order, the id parsed from field 0
\* and the title the trimmed field 1 without its year suffix; a line of one
\* field contributes nothing and the empty text gives the empty sequence.
ClaimC12 ==
    pc = "doneParseItemData" => movies = expectedMovies(probe)

\* parseItemData has returned for the text " \n 12|A (1995)|881": a blank
\* line, then a line of three fields.
WitnessC12 ==
    /\ pc = "doneParseItemData"
    /\ textOf(probe, "|") = <<" ", "\n", " ", "1", "2", "|", "A", " ", "(", "1",
                             "9", "9", "5", ")", "|", "8", "8", "1">>
    /\ movies = <<[id |-> 12, title |-> <<"A">>]>>

\* The ratings the lines ls stand for: one for every line of three fields or
\* more, in order, with the numbers its fields 0, 1 and 2 stand for.
RECURSIVE expectedRatings(_)
expectedRatings(ls) ==
    IF ls = <<>> THEN <<>>
    ELSE (IF Len(Head(ls)) >= 3
          THEN <<[userId |-> Head(ls)[1].int,
                  movieId |-> Head(ls)[2].int,
                  rating |-> Head(ls)[3].int]>>
          ELSE <<>>) \o expectedRatings(Tail(ls))

\* C13: parseRatingData returns one Rating for every non-blank line with at
\* least 3 tab-delimited fields, in input order, with userId, movieId and
\* rating read from fields 0, 1 and 2 and no trace of the timestamp; a line
\* of fewer fields contributes nothing and the empty text gives the empty
\* sequence.
ClaimC13 ==
    pc = "doneParseRatingData"
        => /\ ratings = expectedRatings(probe)
           /\ \A k \in 1..Len(ratings) :
                 DOMAIN ratings[k] = {"userId", "movieId", "rating"}

\* parseRatingData has returned for the text "3\t4\n3\t 12\t2 \t881": a line
\* of two fields, then a line with a timestamp.
WitnessC13 ==
    /\ pc = "doneParseRatingData"
    /\ textOf(probe, "\t") = <<"3", "\t", "4", "\n", "3", "\t", " ", "1", "2",
                              "\t", "2", " ", "\t", "8", "8", "1">>
    /\ ratings = <<[userId |-> 3, movieId |-> 12, rating |-> 2]>>

\* How many of the stars shown are of kind k.
starCount(k) == Cardinality({i \in DOMAIN result.stars : result.stars[i] = k})

ClaimC15 ==
    /\ [](loadOutcome /= "raised")
    /\ [](pc = "done" => ~btnDisabled)
    /\ [][(trainState' = "Failed" /\ trainState /= "Failed")
             => status' = "Training failed: "]_vars
    /\ [][(Len(pending') < Len(pending) /\ predTensors' = predTensors)
             => result' = showResult("Prediction failed: ", "error")]_vars

\* C16: the epochs of fit end one by one in increasing order, each ending
\* in exactly one progress report of fraction (e + 1) / EPOCHS, so progress
\* grows strictly and shows 100% only once the last epoch has ended; the
\* report leaves model, ratings, movies, numUsers, numMovies, the training
\* state and the position of trainModel as they were.
ClaimC16 ==
    /\ [][epoch' /= epoch
             => /\ epoch \in 0..(EPOCHS - 1)
                /\ epoch' = epoch + 1
                /\ progress' * EPOCHS = (epoch + 1) * 1000
                /\ progress' > progress
                /\ UNCHANGED <<model, ratings, movies, numUsers, numMovies,
                               trainState, pc, trainTensors>>]_vars
    /\ [][progress' /= progress => epoch' = epoch + 1]_vars
    /\ [](progress = 1000 => epoch = EPOCHS)
    /\ [](trainState = "Completed" => (epoch = EPOCHS /\ progress = 1000))

\* The fourth epoch of fit has ended and its progress, 50%, is shown.
WitnessC16 ==
    /\ pc = "fit"
    /\ trainState = "Running"
    /\ epoch = 4
    /\ progress = 500

\* C17: with training completed, the only live prediction tensors are those
\* of predictRating calls still suspended at await prediction.data(), three
\* for each, and no step of a call changes that: once every call has ended,
\* with a result or with a failure, none is live.
ClaimC17 ==
    [][(trainState = "Completed" /\ predTensors = 3 * Len(pending))
          => predTensors' = 3 * Len(pending')]_vars

(***************************************************************************)
(* Progress.  The steps of the page's own code run as soon as they can     *)
(* (the event loop runs every continuation that is ready), the engine ends *)
(* every epoch it has begun and fit settles; the network and the user are  *)
(* under no obligation.                                                    *)
(***************************************************************************)
LiveSpec ==
    /\ Spec
    /\ WF_vars(sampleUser)
    /\ WF_vars(sampleRating)
    /\ WF_vars(trainModel)
    /\ WF_vars(onEpochEnd)
    /\ WF_vars(fitResolves)

Terminal == {"Completed", "Failed"}

\* C18: once trainModel has been called, training ends as Completed or as
\* Failed and stays there; Running is left only for one of the two (nothing
\* cancels training); trainModel is called only by window.onload after
\* loadData has returned, and only while training has not started.
ClaimC18 ==
    /\ (pc = "trainModel" \/ trainState = "Running") ~> (trainState \in Terminal)
    /\ [][(trainState \in Terminal) => (trainState' = trainState)]_vars
    /\ [][trainState = "Running"
             => trainState' \in {"Running", "Completed", "Failed"}]_vars
    /\ [][(pc' = "trainModel" /\ pc /= "trainModel")
             => /\ pc = "loadReturned"
                /\ loadOutcome = "returned"
                /\ trainState = "NotStarted"]_vars
    /\ [][(trainState = "NotStarted" /\ trainState' /= "NotStarted")
             => pc = "trainModel"]_vars
    /\ [](pc = "trainModel" => trainState = "NotStarted")

\* fit has resolved after the last epoch and training is Completed.
WitnessC18 ==
    /\ trainState = "Completed"
    /\ epoch = EPOCHS
    /\ pc = "done"
    /\ loadOutcome = "returned"

\* The dataset is what parsing two bodies of the network gives.
BothFetched ==
    /\ movies \in {parseItemData(b) : b \in MovieBodies}
    /\ ratings \in {parseRatingData(b) : b \in RatingBodies}
    /\ numMovies = Len(movies)

\* The dataset is the one loadSampleData builds: its catalog literal, its
\* dimensions, and ratings of its users for its movies on its scale.
BothSynthetic ==
    /\ movies = SampleMovies
    /\ numUsers = 50
    /\ numMovies = 20
    /\ \A k \in 1..Len(ratings) :
          /\ ratings[k].userId \in 1..50
          /\ ratings[k].movieId \in 1..20
          /\ ratings[k].rating \in 1..5

\* C19: the dataset loadData returns is wholly parsed from the two retrieved
\* texts or wholly the one loadSampleData builds, never the catalog of one
\* and the ratings of the other; when exactly one of the two resources was
\* retrieved, loadSampleData starts from nothing and the retrieved text is
\* dropped.
ClaimC19 ==
    /\ [](loadOutcome = "returned"
             => \/ datasetSource = "fetched" /\ BothFetched
                \/ /\ datasetSource = "synthetic"
                   /\ BothSynthetic
                   /\ Len(ratings) >= 250)
    /\ [](datasetSource = "synthetic" => movies = SampleMovies)
    /\ [][(pc = "decide" /\ moviesSuccess /= ratingsSuccess /\ pc' /= pc)
             => /\ pc' = "sampleUser"
                /\ datasetSource' = "synthetic"
                /\ movies' = SampleMovies
                /\ ratings' = <<>>
                /\ moviesText' = Undefined
                /\ ratingsText' = Undefined]_vars

\* The catalog was retrieved with two movies in it, no location gave the
\* rating list, and loadData is about to decide what it returns.
WitnessC19 ==
    /\ pc = "decide"
    /\ moviesSuccess
    /\ ~ratingsSuccess
    /\ Len(parseItemData(moviesText)) = 2
    /\ datasetSource = "none"

\* C20: in loadSampleData the number of ratings drawn for a user never
\* exceeds the catalog size, the set of movies rated so far has one entry for
\* each rating generated, and whenever the retry loop is about to run some
\* movie is not yet in that set; so, with the steps of the generator taken
\* and the random stream visiting every movie, loadSampleData returns, having
\* gone through all 50 users.
ClaimC20 ==
    /\ [](pc = "sampleRating"
             => /\ numRatings <= numMovies
                /\ Cardinality(ratedMovies) = genI
                /\ genI <= numRatings
                /\ genI < numRatings
                      => /\ Cardinality(ratedMovies) < numMovies
                         /\ ENABLED sampleRating)
    /\ (pc \in {"sampleUser", "sampleRating"})
          ~> (pc = "loadReturned" /\ loadOutcome = "returned" /\ genUserId = 51)

\* The retry loop is entered for the last rating of a user who gets 12
\* ratings: 11 movies are taken, 9 are free.
WitnessC20 ==
    /\ pc = "sampleRating"
    /\ numRatings = 12
    /\ genI = 11
    /\ Cardinality(ratedMovies) = 11
====
